---- MODULE Spec2Model ----
(***************************************************************************)
(* A model of aeon/anomaly_detection/_madrid.py: the MADRID detector's     *)
(* constructor, its detection routine _predict, the flat-region test       *)
(* _contains_constant_regions and the runtime estimator                    *)
(* _estimate_processing_time.                                              *)
(*                                                                         *)
(* A state holds the detector built by the most recent constructor call    *)
(* and the frame (arguments, locals, outcome) of the call that has just    *)
(* ended.  Every method is one action: it runs from entry to its return or *)
(* to the exception that ends it, and the frame keeps the locals bound by  *)
(* then.  The caller is single-threaded: it drops the frame of one call    *)
(* before it makes the next.                                               *)
(***************************************************************************)
EXTENDS Integers, Sequences, FiniteSets

VARIABLES detector, init, method, call, outcome, frame

vars == <<detector, init, method, call, outcome, frame>>

(***************************************************************************)
(* Bounds of the model.                                                    *)
(***************************************************************************)
MaxN == 4
MaxVal == 1
MaxLen == 3
MaxStep == 2
MaxSplit == 1
MaxFactor == 2
BigLenX == 5000003
EnumLimit == 64

(***************************************************************************)
(* Python values.                                                          *)
(***************************************************************************)
\* An optional integer argument: None, or an integer.
None == [some |-> FALSE, val |-> 0]
Some(v) == [some |-> TRUE, val |-> v]

\* Python truth of an optional integer: None and 0 are false.
Truthy(o) == o.some /\ o.val # 0

NegInf == "-inf"
NaN == "nan"

\* math.ceil(a / b) and np.ceil(a / b) for integers a and b > 0.
CeilDiv(a, b) == -((-a) \div b)

\* len(range(start, stop, step)) and len(np.arange(start, stop, step)), step > 0.
RangeLen(start, stop, step) ==
  IF stop > start THEN CeilDiv(stop - start, step) ELSE 0

\* np.arange(start, stop, step) for step > 0.
ARange(start, stop, step) ==
  [i \in 1..RangeLen(start, stop, step) |-> start + (i - 1) * step]

\* np.diff of a one-dimensional array.
Diff(s) == [i \in 1..(Len(s) - 1) |-> s[i + 1] - s[i]]

RECURSIVE SeqSum(_)
SeqSum(s) == IF s = <<>> THEN 0 ELSE Head(s) + SeqSum(Tail(s))

RECURSIVE SeqMax(_)
SeqMax(s) ==
  IF Len(s) = 1 THEN s[1]
  ELSE LET r == SeqMax(Tail(s)) IN IF s[1] >= r THEN s[1] ELSE r

Squares(s) == [i \in 1..Len(s) |-> s[i] * s[i]]

(***************************************************************************)
(* The frame of a call: its arguments and its locals.  A local that the    *)
(* call has not bound yet holds the neutral value given here, and the      *)
(* flags say which statements have run.                                    *)
(***************************************************************************)
\* result is the value the call gives back: None unless a statement returns an
\* array (is_array), and no statement of the source does.
NoCall == [X |-> <<>>, factor |-> None, estimate_time |-> FALSE, len_x |-> 0]

EmptyFrame ==
  [ccr_called |-> FALSE, bool_vec |-> FALSE, constant_length |-> 0,
   squeezed |-> FALSE, len_x |-> 0,
   estimator_called |-> FALSE, estimator_entered |-> FALSE,
   allocated |-> FALSE, num_rows |-> 0, num_cols |-> 0,
   multilength_discord_table |-> <<>>, bsf |-> <<>>, bsf_loc |-> <<>>,
   m_set_built |-> FALSE, m_set |-> <<>>, m_pointer |-> 0,
   m_bound |-> FALSE, m |-> 0,
   size |-> <<>>, p |-> <<>>, predicted |-> <<>>,
   result |-> [is_array |-> FALSE, items |-> <<>>]]

(***************************************************************************)
(* MADRID.__init__                                                         *)
(***************************************************************************)
NoDetector ==
  [constructed |-> FALSE, min_length |-> 0, max_length |-> 0,
   step_size |-> 0, split_psn |-> 0]

NoInit ==
  [min_length |-> 0, max_length |-> 0, step_size |-> 0, split_psn |-> None,
   raised |-> FALSE]

\* A mutated step_size test: only negative values are refused.
StepSizeRejectedNegativeOnly(step_size) == step_size < 0

\* if step_size <= 0: raise ValueError
StepSizeRejected(step_size) == step_size <= 0

\* if split_psn: self.split_psn = split_psn  else: self.split_psn = max_length + 1
StoredSplitPsn(split_psn, max_length) ==
  IF Truthy(split_psn) THEN split_psn.val ELSE max_length + 1

Construct(min_length, max_length, step_size, split_psn) ==
  /\ init' = [min_length |-> min_length, max_length |-> max_length,
              step_size |-> step_size, split_psn |-> split_psn,
              raised |-> StepSizeRejected(step_size)]
  /\ detector' =
       IF StepSizeRejected(step_size)
       THEN NoDetector
       ELSE [constructed |-> TRUE,
             min_length |-> min_length,
             max_length |-> max_length,
             split_psn |-> StoredSplitPsn(split_psn, max_length),
             step_size |-> step_size]
  /\ method' = "__init__"
  /\ call' = NoCall
  /\ outcome' = IF StepSizeRejected(step_size)
                THEN "ValueError: step_size must be greater than 0"
                ELSE "return"
  /\ frame' = EmptyFrame

(***************************************************************************)
(* MADRID._contains_constant_regions                                       *)
(***************************************************************************)
VarThresholdNum == 1
VarThresholdDen == 5

\* np.where(np.diff(X) != 0)[0] + 1: the 0-based positions whose value differs
\* from the one before, in increasing order.
ChangePoints(X) ==
  LET d == Diff(X)
      idx == [i \in 1..Len(d) |-> i]
      Changed(i) == d[i] # 0
  IN SelectSeq(idx, Changed)

\* np.concatenate(([0], constant_indices, [len(X)]))
ConstantIndices(X) == <<0>> \o ChangePoints(X) \o <<Len(X)>>

\* max(np.diff(constant_indices))
ConstantLength(X) == SeqMax(Diff(ConstantIndices(X)))

\* np.var(X) < 0.2.  The population variance, mean(|x - mean|^2), equals
\* (n * sum(x^2) - sum(x)^2) / n^2, and the test is taken exactly on that
\* fraction; the variance of an empty array is nan, which is below nothing.
VarBelowThreshold(X) ==
  LET n == Len(X)
      s == SeqSum(X)
      q == SeqSum(Squares(X))
  IN VarThresholdDen * (n * q - s * s) < VarThresholdNum * n * n

\* A mutated flat-region test: a run must be strictly longer than the window.
ContainsConstantRegionsStrict(X, sub_sequence_length) ==
  ConstantLength(X) > sub_sequence_length \/ VarBelowThreshold(X)

ContainsConstantRegions(X, sub_sequence_length) ==
  ConstantLength(X) >= sub_sequence_length \/ VarBelowThreshold(X)

(***************************************************************************)
(* MADRID._estimate_processing_time                                        *)
(***************************************************************************)
Factors == {1, 2, 4, 8, 16}

RegimeThreshold == 5000000

\* The coefficient lists, highest power first, as the source writes them.
P1Poly ==
  <<"-4.66922312132205e-45", "1.54665628995475e-35", "-1.29314859463985e-26",
    "2.01592418847342e-18", "-2.54253065977245e-11", "9.77027495487874e-05",
    "-1.27055582771851e-05">>
P2Poly ==
  <<"-3.79100071825804e-42", "3.15547030055575e-33", "-6.62877819318290e-25",
    "2.59437174380763e-17", "-8.10970871564789e-11", "7.25344313152170e-05",
    "4.68415490390476e-07">>
P1Linear == <<"3.90752957831437e-05", "0">>
P2Linear == <<"1.94005690535588e-05", "0">>
P4 == <<"1.26834880558841e-05", "0">>
P8 == <<"1.42210521045333e-05", "0">>
P16 == <<"1.82290885539705e-05", "0">>

\* len(range(1, len_x - split_psn, factor))
\*   * len(range(ceil(min_length / factor), ceil(max_length / factor), step_size))
ProblemSize(d, len_x, factor) ==
  RangeLen(1, len_x - d.split_psn, factor)
    * RangeLen(CeilDiv(d.min_length, factor), CeilDiv(d.max_length, factor),
               d.step_size)

\* A mutated regime test: the threshold itself still counts as small.
PolynomialRegimeInclusive(d, len_x) == ProblemSize(d, len_x, 1) <= RegimeThreshold

\* The test of lines 108-118, taken at factor = 1.
PolynomialRegime(d, len_x) == ProblemSize(d, len_x, 1) < RegimeThreshold

\* The coefficient list bound to p_<factor> when the predictions are made.
Coefficients(d, len_x, factor) ==
  CASE factor = 1 -> IF PolynomialRegime(d, len_x) THEN P1Poly ELSE P1Linear
    [] factor = 2 -> IF PolynomialRegime(d, len_x) THEN P2Poly ELSE P2Linear
    [] factor = 4 -> P4
    [] factor = 8 -> P8
    [] factor = 16 -> P16

\* np.polyval(p, x): the polynomial with coefficient list p applied to x.  Its
\* floating-point value is not computed; the application is kept as it is.
PolyVal(p, x) == [p |-> p, x |-> x]

\* The locals of _estimate_processing_time when it ends.  The routine has no
\* return statement: the five predictions stay locals and the call gives None.
EstimateFrame(d, len_x) ==
  [EmptyFrame EXCEPT
     !.estimator_entered = TRUE,
     !.len_x = len_x,
     !.size = [f \in Factors |-> ProblemSize(d, len_x, f)],
     !.p = [f \in Factors |-> Coefficients(d, len_x, f)],
     !.predicted = [f \in Factors |->
                      PolyVal(Coefficients(d, len_x, f), ProblemSize(d, len_x, f))]]

EstimateProcessingTime(len_x) ==
  /\ method' = "_estimate_processing_time"
  /\ call' = [NoCall EXCEPT !.len_x = len_x]
  /\ frame' = EstimateFrame(detector, len_x)
  /\ outcome' = "return None"
  /\ UNCHANGED <<detector, init>>

(***************************************************************************)
(* MADRID._predict                                                         *)
(***************************************************************************)
\* A mutated knob test: it fires only when the factor was left unset.
BothKnobsSetInverted(estimate_time, factor) == estimate_time /\ ~Truthy(factor)

\* if estimate_time and factor: raise ValueError
BothKnobsSet(estimate_time, factor) == estimate_time /\ Truthy(factor)

\* A mutated length test, off by one.
TooShortOffByOne(X, min_length) == Len(X) < min_length - 1

\* if X.shape[0] < self.min_length: raise ValueError
TooShort(X, min_length) == Len(X) < min_length

\* The positional parameters of _estimate_processing_time(self, len_x), and the
\* positional arguments that self._estimate_processing_time(self, len_x) passes:
\* the bound self and the two written ones.
EstimatorParams == 2
EstimatorCallArgs == 3

\* A mutated row count: max_length itself is left out.
NumRowsExclusive(d) == CeilDiv(d.max_length - d.min_length, d.step_size)

\* int(np.ceil((max_length + 1 - min_length) / step_size))
NumRows(d) == CeilDiv(d.max_length + 1 - d.min_length, d.step_size)

\* np.full((rows, cols), value)
Full(rows, cols, value) == [i \in 1..rows |-> [j \in 1..cols |-> value]]

\* np.arange(min_length, max_length + 1, step_size)
MSet(d) == ARange(d.min_length, d.max_length + 1, d.step_size)

\* int(np.ceil(len(m_set) / 2))
MPointer(m_set) == CeilDiv(Len(m_set), 2)

\* m_set[m_pointer]: Python indexes from 0, and m_pointer is never negative.
IndexInBounds(m_set, m_pointer) == m_pointer < Len(m_set)
Item(m_set, m_pointer) == m_set[m_pointer + 1]

Ended(o, f) == [outcome |-> o, frame |-> f]

\* Lines 69-82: the tables, the length set and the pivot.
Initialize(d, X, f) ==
  LET num_rows == NumRows(d)
      num_cols == Len(X)
      sized == [f EXCEPT !.num_rows = num_rows, !.num_cols = num_cols]
  IN
  IF num_rows < 0
  THEN Ended("ValueError: negative dimensions are not allowed", sized)
  ELSE
    LET m_set == MSet(d)
        m_pointer == MPointer(m_set)
        tables ==
          [sized EXCEPT
             !.allocated = TRUE,
             !.multilength_discord_table = Full(num_rows, num_cols, NegInf),
             !.bsf = Full(num_rows, 1, 0),
             !.bsf_loc = Full(num_rows, 1, NaN),
             !.m_set_built = TRUE,
             !.m_set = m_set,
             !.m_pointer = m_pointer]
    IN
    IF ~IndexInBounds(m_set, m_pointer)
    THEN Ended("IndexError: index out of bounds", tables)
    ELSE Ended("return None",
               [tables EXCEPT !.m_bound = TRUE, !.m = Item(m_set, m_pointer)])

\* Lines 60-67: squeeze, len, and the estimator call.
Prepare(d, X, estimate_time, f) ==
  IF Len(X) = 1
  THEN \* squeeze turns a one-element array into a 0-d array, which has no len
       Ended("TypeError: len() of unsized object", [f EXCEPT !.squeezed = TRUE])
  ELSE
    LET g == [f EXCEPT !.squeezed = TRUE, !.len_x = Len(X)] IN
    IF ~estimate_time THEN Initialize(d, X, g)
    ELSE IF EstimatorCallArgs # EstimatorParams
    THEN Ended("TypeError: takes 2 positional arguments but 3 were given",
               [g EXCEPT !.estimator_called = TRUE])
    ELSE
      LET e == EstimateFrame(d, Len(X)) IN
      Initialize(d, X, [g EXCEPT !.estimator_called = TRUE,
                                 !.estimator_entered = TRUE,
                                 !.size = e.size, !.p = e.p,
                                 !.predicted = e.predicted])

\* Lines 35-58: the three validation steps, in the order of the source.
PredictRun(d, X, factor, estimate_time) ==
  IF BothKnobsSet(estimate_time, factor)
  THEN Ended("ValueError: both factor and estimate_time", EmptyFrame)
  ELSE IF TooShort(X, d.min_length)
  THEN Ended("ValueError: series shorter than min_length", EmptyFrame)
  ELSE
    LET f == [EmptyFrame EXCEPT
                !.ccr_called = TRUE,
                !.constant_length = ConstantLength(X),
                !.bool_vec = ContainsConstantRegions(X, d.min_length)]
    IN
    IF f.bool_vec
    THEN Ended("ValueError: constant region", f)
    ELSE Prepare(d, X, estimate_time, f)

Predict(X, factor, estimate_time) ==
  /\ method' = "_predict"
  /\ call' = [NoCall EXCEPT !.X = X, !.factor = factor,
                            !.estimate_time = estimate_time]
  /\ LET r == PredictRun(detector, X, factor, estimate_time) IN
       /\ outcome' = r.outcome
       /\ frame' = r.frame
  /\ UNCHANGED <<detector, init>>

(***************************************************************************)
(* The caller: a call's frame is gone once the call has ended; the         *)
(* detector, if one was built, stays.                                      *)
(***************************************************************************)
Discard ==
  /\ method # "none"
  /\ method' = "none"
  /\ call' = NoCall
  /\ outcome' = "none"
  /\ frame' = EmptyFrame
  /\ UNCHANGED <<detector, init>>

(***************************************************************************)
(* The inputs, and the specification.                                      *)
(***************************************************************************)
RECURSIVE SeqsUpTo(_, _)
SeqsUpTo(S, n) ==
  IF n = 0 THEN {<<>>}
  ELSE LET shorter == SeqsUpTo(S, n - 1) IN
       shorter \cup {Append(s, v) : s \in {t \in shorter : Len(t) = n - 1}, v \in S}

Series == SeqsUpTo(0..MaxVal, MaxN)
Lengths == 1..MaxLen
StepSizes == -1..MaxStep
SplitPsns == {None} \cup {Some(v) : v \in 0..MaxSplit}
FactorArgs == {None} \cup {Some(v) : v \in 0..MaxFactor}
LenXs == 0..MaxN \cup (BigLenX - 1)..(BigLenX + 2)

Init ==
  /\ detector = NoDetector
  /\ init = NoInit
  /\ method = "none"
  /\ call = NoCall
  /\ outcome = "none"
  /\ frame = EmptyFrame

\* A call is made when no call is under way; its arguments are drawn here.
Idle == method = "none"

Next ==
  \/ /\ Idle
     /\ \E min_length \in Lengths, max_length \in Lengths,
           step_size \in StepSizes, split_psn \in SplitPsns :
          Construct(min_length, max_length, step_size, split_psn)
  \/ /\ Idle
     /\ detector.constructed
     /\ \E X \in Series, factor \in FactorArgs, estimate_time \in BOOLEAN :
          Predict(X, factor, estimate_time)
  \/ /\ Idle
     /\ detector.constructed
     /\ \E len_x \in LenXs : EstimateProcessingTime(len_x)
  \/ Discard

Spec == Init /\ [][Next]_vars

(***************************************************************************)
(* The vocabulary of the properties.  These definitions say what a         *)
(* property means; none of them is used by the actions above.              *)
(***************************************************************************)
ErrStepSize == "ValueError: step_size must be greater than 0"
ErrBothKnobs == "ValueError: both factor and estimate_time"
ErrTooShort == "ValueError: series shorter than min_length"
ErrConstantRegion == "ValueError: constant region"

SetMax(S) == CHOOSE x \in S : \A y \in S : y <= x

\* The length of the longest block of identical consecutive values of X.
LongestBlock(X) ==
  SetMax({0} \cup {w \in 1..Len(X) :
                     \E i \in 1..(Len(X) - w + 1) :
                       \A k \in i..(i + w - 1) : X[k] = X[i]})

\* The population variance of X is below 0.2: sum (x - mean)^2 / n < 1/5, with
\* every term scaled by n.
LowVariance(X) ==
  LET n == Len(X)
      s == SeqSum(X)
  IN 5 * SeqSum([i \in 1..n |-> (n * X[i] - s) * (n * X[i] - s)]) < n * n * n

\* Both knobs of a detection call are set.
KnobsBothSet == call.estimate_time /\ call.factor.some /\ call.factor.val # 0

\* The series and the configuration of the detection call pass validation.
PassesValidation ==
  /\ Len(call.X) >= detector.min_length
  /\ LongestBlock(call.X) < detector.min_length
  /\ ~LowVariance(call.X)
  /\ ~KnobsBothSet

\* The Length Set {min_length, min_length + step_size, ... <= max_length}.
LengthSet(d) ==
  {m \in d.min_length..d.max_length : (m - d.min_length) % d.step_size = 0}

(***************************************************************************)
(* C1.  A constructor call with step_size <= 0 ends with the step_size     *)
(* error and builds no detector, whatever min_length, max_length and       *)
(* split_psn are; every detector that exists, and so every detector a      *)
(* detection call runs on, has step_size >= 1.                             *)
(***************************************************************************)
C1_StepSizeRejected ==
  /\ (method = "__init__" /\ init.step_size <= 0
        => outcome = ErrStepSize /\ ~detector.constructed)
  /\ (detector.constructed => detector.step_size >= 1)
  /\ (method = "_predict" => detector.constructed /\ detector.step_size >= 1)

C1_Witness ==
  /\ method = "__init__"
  /\ init.step_size = 0
  /\ init.split_psn.some
  /\ outcome = ErrStepSize

(***************************************************************************)
(* C2, as claimed.  Every detection call on a series with fewer than       *)
(* min_length points ends with the data-too-short error, before the        *)
(* Discord Table or the BSF registers are allocated.                       *)
(***************************************************************************)
C2_TooShortAlways ==
  method = "_predict" /\ Len(call.X) < detector.min_length
    => outcome = ErrTooShort /\ ~frame.allocated

(***************************************************************************)
(* C2, amended.  A detection call on a series with fewer than min_length   *)
(* points ends with the data-too-short error unless both factor and        *)
(* estimate_time are set, and then it ends with the configuration error;   *)
(* either way nothing is allocated: no flat-region test, no Discord Table, *)
(* no BSF register.                                                        *)
(***************************************************************************)
C2_TooShort ==
  method = "_predict" /\ Len(call.X) < detector.min_length
    => /\ outcome = (IF KnobsBothSet THEN ErrBothKnobs ELSE ErrTooShort)
       /\ ~frame.allocated
       /\ ~frame.ccr_called
       /\ frame.multilength_discord_table = <<>>
       /\ frame.bsf = <<>>
       /\ frame.bsf_loc = <<>>

C2_Witness ==
  /\ method = "_predict"
  /\ Len(call.X) = detector.min_length - 1
  /\ Len(call.X) >= 1
  /\ ~KnobsBothSet
  /\ outcome = ErrTooShort

(***************************************************************************)
(* C3, as claimed.  Every detection call on a series of at least           *)
(* min_length points whose longest block of equal consecutive values has   *)
(* at least min_length points runs the flat-region test, which returns     *)
(* true with that block's length as its maximum run length, and ends with  *)
(* the degenerate-region error.                                            *)
(***************************************************************************)
C3_ConstantRunAlways ==
  method = "_predict"
  /\ Len(call.X) >= detector.min_length
  /\ LongestBlock(call.X) >= detector.min_length
    => /\ frame.ccr_called
       /\ frame.bool_vec
       /\ frame.constant_length = LongestBlock(call.X)
       /\ outcome = ErrConstantRegion

(***************************************************************************)
(* C3, amended.  The same, for the calls that do not set both factor and   *)
(* estimate_time (those end with the configuration error before the        *)
(* flat-region test runs); and whenever the flat-region test runs, the     *)
(* maximum run length it computes is the length of the longest block of    *)
(* equal consecutive values, the ends of the series closing a block.       *)
(***************************************************************************)
C3_ConstantRun ==
  /\ (method = "_predict"
      /\ ~KnobsBothSet
      /\ Len(call.X) >= detector.min_length
      /\ LongestBlock(call.X) >= detector.min_length
        => /\ frame.ccr_called
           /\ frame.bool_vec
           /\ outcome = ErrConstantRegion)
  /\ (method = "_predict" /\ frame.ccr_called
        => frame.constant_length = LongestBlock(call.X))
  /\ (method = "_predict" /\ KnobsBothSet => ~frame.ccr_called)

\* A run of exactly min_length at the end of a series whose variance is not low.
C3_Witness ==
  /\ method = "_predict"
  /\ ~KnobsBothSet
  /\ Len(call.X) > detector.min_length
  /\ LongestBlock(call.X) = detector.min_length
  /\ detector.min_length >= 2
  /\ call.X[Len(call.X)] = call.X[Len(call.X) - 1]
  /\ ~LowVariance(call.X)
  /\ frame.bool_vec
  /\ outcome = ErrConstantRegion

(***************************************************************************)
(* C4.  A detection call that sets estimate_time and gives a downsampling  *)
(* factor (a stride, so >= 1) ends with the configuration error whatever   *)
(* the series is, and runs nothing else: no flat-region test, no           *)
(* estimator, no allocation, no pivot selection.                           *)
(***************************************************************************)
C4_BothKnobsRejected ==
  method = "_predict" /\ call.estimate_time
  /\ call.factor.some /\ call.factor.val >= 1
    => /\ outcome = ErrBothKnobs
       /\ ~frame.ccr_called
       /\ ~frame.estimator_called
       /\ ~frame.estimator_entered
       /\ ~frame.allocated
       /\ ~frame.m_set_built

\* Both knobs set on a series that would otherwise pass validation.
C4_Witness ==
  /\ method = "_predict"
  /\ call.estimate_time
  /\ call.factor.some /\ call.factor.val >= 1
  /\ Len(call.X) >= detector.min_length
  /\ LongestBlock(call.X) < detector.min_length
  /\ ~LowVariance(call.X)
  /\ outcome = ErrBothKnobs

(***************************************************************************)
(* C5.  After a constructor call that succeeds, the stored split_psn is    *)
(* max_length + 1 when split_psn was left unset, and the supplied value    *)
(* when one was supplied, for every supplied value >= 0.                   *)
(***************************************************************************)
C5_SplitPsnStored ==
  method = "__init__" /\ outcome = "return"
    => /\ (~init.split_psn.some => detector.split_psn = init.max_length + 1)
       /\ (init.split_psn.some /\ init.split_psn.val >= 0
             => detector.split_psn = init.split_psn.val)

(***************************************************************************)
(* C6.  In every detection call that reaches the pivot selection with      *)
(* 1 <= min_length <= max_length, m_pointer indexes an element of the      *)
(* Length Set, and the call binds m to that element.                       *)
(***************************************************************************)
C6_PivotInLengthSet ==
  method = "_predict" /\ frame.m_set_built
  /\ 1 <= detector.min_length /\ detector.min_length <= detector.max_length
    => /\ frame.m_pointer < Len(frame.m_set)
       /\ outcome # "IndexError: index out of bounds"
       /\ frame.m_bound
       /\ frame.m \in LengthSet(detector)

(***************************************************************************)
(* C7.  Every detection call whose series and configuration pass           *)
(* validation completes and returns an array with one entry per series     *)
(* position.  Stated for the calls that leave the estimator alone and      *)
(* search at least two lengths, so that nothing before the end of the      *)
(* routine can stop them.                                                  *)
(***************************************************************************)
C7_ReturnsIndicator ==
  method = "_predict" /\ PassesValidation
  /\ ~call.estimate_time
  /\ detector.min_length < detector.max_length
    => /\ frame.result.is_array
       /\ Len(frame.result.items) = Len(call.X)

(***************************************************************************)
(* C8.  A detection call on a series that passes validation, with          *)
(* estimate_time set and no factor, enters the estimator, which completes  *)
(* without error and yields one prediction for each factor of              *)
(* {1, 2, 4, 8, 16}.  Stated for configurations with                       *)
(* min_length < max_length.                                                *)
(***************************************************************************)
C8_EstimatorRuns ==
  method = "_predict" /\ PassesValidation
  /\ call.estimate_time /\ ~call.factor.some
  /\ detector.min_length < detector.max_length
    => /\ frame.estimator_entered
       /\ outcome = "return None"
       /\ DOMAIN frame.predicted = Factors

(***************************************************************************)
(* C9.  When the estimator ends, for each factor f of {1, 2, 4, 8, 16} the *)
(* prediction is the factor's model applied to the factor's own problem    *)
(* size, (count of integers in [1, N - split_psn) stepped by f) times      *)
(* (count of integers in [ceil(min_length/f), ceil(max_length/f)) stepped  *)
(* by step_size); the models of factors 1 and 2 are their degree-6         *)
(* coefficient lists exactly when the factor-1 problem size is below       *)
(* 5,000,000 and their linear lists otherwise; factors 4, 8 and 16 keep    *)
(* their linear lists; and with max_length <= min_length every problem     *)
(* size is 0 and the estimator still returns.                              *)
(***************************************************************************)
\* The least integer c with c * f >= x, for x >= 0.
CeilOf(x, f) == CHOOSE c \in 0..x : c * f >= x /\ (c - 1) * f < x

\* The number of integers of [a, b) reached from a in steps of s: counted one
\* by one on a short interval, and by division on a long one.
CountStepped(a, b, s) ==
  IF b - a <= EnumLimit
  THEN Cardinality({x \in a..(b - 1) : (x - a) % s = 0})
  ELSE ((b - a - 1) \div s) + 1

SizeAt(f) ==
  CountStepped(1, call.len_x - detector.split_psn, f)
    * CountStepped(CeilOf(detector.min_length, f),
                   CeilOf(detector.max_length, f), detector.step_size)

ModelAt(f) ==
  CASE f = 1 -> IF SizeAt(1) < 5000000 THEN P1Poly ELSE P1Linear
    [] f = 2 -> IF SizeAt(1) < 5000000 THEN P2Poly ELSE P2Linear
    [] f = 4 -> P4
    [] f = 8 -> P8
    [] f = 16 -> P16

\* C9: each prediction is the factor's own model at the factor's own problem size.
C9_EstimatorModels ==
  method = "_estimate_processing_time"
    => /\ DOMAIN frame.predicted = Factors
       /\ \A f \in Factors :
            /\ frame.predicted[f].x = SizeAt(f)
            /\ frame.predicted[f].p = ModelAt(f)
       /\ \A f \in {1, 2} :
            Len(frame.predicted[f].p) = (IF SizeAt(1) < 5000000 THEN 7 ELSE 2)
       /\ \A f \in {4, 8, 16} : Len(frame.predicted[f].p) = 2
       /\ (detector.max_length <= detector.min_length
             => \A f \in Factors : frame.predicted[f].x = 0)
       /\ outcome = "return None"

\* The factor-1 problem size is exactly 5,000,000: the first linear case.
C9_Witness ==
  /\ method = "_estimate_processing_time"
  /\ frame.predicted[1].x = 5000000
  /\ frame.predicted[1].p = P1Linear
  /\ frame.predicted[2].x > 0
  /\ frame.predicted[2].x < frame.predicted[1].x

(***************************************************************************)
(* C10.  In a detection call with 1 <= min_length <= max_length that       *)
(* reaches the Initialize step, the Discord Table has one row per element  *)
(* of the Length Set and one column per series position, every entry is    *)
(* negative infinity, and there is one BSF value register per length       *)
(* holding 0 and one BSF position register per length holding nan; and a   *)
(* call on a series that passes validation, with estimate_time unset,      *)
(* does reach the Initialize step.                                         *)
(***************************************************************************)
C10_InitializeTables ==
  method = "_predict"
  /\ 1 <= detector.min_length /\ detector.min_length <= detector.max_length
    => /\ (PassesValidation /\ ~call.estimate_time => frame.allocated)
       /\ (frame.allocated =>
             LET rows == Cardinality(LengthSet(detector))
                 N == Len(call.X)
             IN /\ rows >= 1
                /\ frame.num_rows = rows
                /\ frame.num_cols = N
                /\ DOMAIN frame.multilength_discord_table = 1..rows
                /\ \A i \in 1..rows :
                     /\ DOMAIN frame.multilength_discord_table[i] = 1..N
                     /\ \A j \in 1..N :
                          frame.multilength_discord_table[i][j] = NegInf
                /\ frame.bsf = [i \in 1..rows |-> <<0>>]
                /\ frame.bsf_loc = [i \in 1..rows |-> <<NaN>>]
                /\ Len(frame.m_set) = rows)

\* Two lengths searched, so a table of two rows.
C10_Witness ==
  /\ method = "_predict"
  /\ frame.allocated
  /\ detector.min_length >= 1
  /\ detector.max_length = detector.min_length + 1
  /\ detector.step_size = 1
  /\ Len(frame.multilength_discord_table) = 2
  /\ Len(call.X) >= 3
  /\ frame.multilength_discord_table[2][Len(call.X)] = NegInf

====
